---- MODULE Spec2Model ----
(***************************************************************************)
(* Model of the two programs of the repository:                            *)
(*   jpeg-recompress  (re-encode a JPEG, keep its metadata)                *)
(*   archive2webp     (convert to WebP)                                    *)
(* Both run the same bisection over the encoder quality; jpeg-recompress   *)
(* then checks the size of the result and splices the metadata of the      *)
(* original file into the output.                                          *)
(*                                                                         *)
(* Scores are floats in the programs.  The model uses a small integer      *)
(* scale 0..MaxScore for them: only the order of scores and targets and    *)
(* the distance |target - score| are used by the code.                     *)
(*                                                                         *)
(* The codecs and the metrics are external.  An encode call returns a      *)
(* candidate whose size, score and decodability the model chooses freely;  *)
(* a call that repeats the arguments of the call right before it returns   *)
(* the same candidate (the codecs are deterministic).                      *)
(***************************************************************************)
EXTENDS Integers, Sequences, FiniteSets, TLC

\* ------------------------------------------------------------------ bounds
\* Qualities range over 1..MaxQ (the programs default to 1..99).
MaxQ == 4
\* The attempt budget (--loops) ranges over 0..MaxAttempts.
MaxAttempts == 2
\* Scores and targets are levels of the scale 0..MaxScore.
MaxScore == 2

\* ------------------------------------------------------- program constants
minDelta == 10
INT_MIN == -2147483647 - 1
\* "Compressed by jpeg-recompress"
COMMENT ==
  <<67, 111, 109, 112, 114, 101, 115, 115, 101, 100, 32, 98, 121, 32,
    106, 112, 101, 103, 45, 114, 101, 99, 111, 109, 112, 114, 101, 115, 115>>
\* int attempts = 8; int qMin = 1; int qMax = 99;
DefaultAttempts == 8
DefaultQMin == 1
DefaultQMax == 99
\* bestDiff starts at FLT_MAX: a value above every distance of the scale.
FLT_MAX == MaxScore + 1
\* The null pointer, for the buffers that hold byte sequences.
NULL == <<-1>>

Methods == {"SSIM", "MS_SSIM", "SMALLFRY", "MPE"}
Scores == 0..MaxScore
\* A target is never 0 when the search starts ("if (!target)" takes the preset).
Targets == 1..(MaxScore - 1)
Qualities == 1..MaxQ

\* ------------------------------------------------------------ byte strings
Zeros(n) == [i \in 1..n |-> 0]
SOI == <<255, 216>>
EOI == <<255, 217>>
SOS == <<255, 218>>
\* A marker segment: marker, two-byte big-endian length (payload + 2), payload.
Segment(marker, payload) ==
  <<255, marker, (Len(payload) + 2) \div 256, (Len(payload) + 2) % 256>> \o payload
APP0 == Segment(224, <<>>)
APP1 == Segment(225, <<69, 120>>)
\* The header segment of the input files: not the one the encoder writes.
JFIF == Segment(224, <<74, 70>>)
\* A quantisation table segment: no metadata.
DQT == Segment(219, <<>>)
\* A comment that is not the signature.
OtherComment == Segment(254, <<88>>)
Drop(s, n) == IF n >= Len(s) THEN <<>> ELSE SubSeq(s, n + 1, Len(s))
Take(s, n) == IF n >= Len(s) THEN s ELSE SubSeq(s, 1, n)
IsPrefix(p, s) == Len(p) <= Len(s) /\ SubSeq(s, 1, Len(p)) = p


\* ------------------------------------------------------------- input files
\* A JPEG file: start marker, header, the signature comment if the file was
\* written by jpeg-recompress, further segments, scan data, end marker.
JpegFile(signed, segments, n) ==
  SOI \o JFIF \o (IF signed THEN Segment(254, COMMENT) ELSE <<>>) \o segments
      \o SOS \o Zeros(n) \o EOI
PpmFile == <<80, 54>> \o Zeros(68)
Garbage == <<71, 73, 70>>
\* <<>> stands for a file that readFile cannot read (it returns 0).
InputFiles ==
  {<<>>, Garbage, PpmFile,
   JpegFile(FALSE, APP1 \o DQT \o OtherComment, 43), JpegFile(TRUE, APP1, 54)}
\* Sizes the encoder may add to the smallest candidate.
PadSizes == {0, 10, 20}
\* A PPM file longer than the smallest candidate with the signature comment
\* and minDelta.
LargePpm == <<80, 54>> \o Zeros(98)

\* The -r and -T options a command line may carry.
TypeOptions ==
  {<<>>, <<"-r">>, <<"-T jpeg">>, <<"-T auto", "-T ppm">>, <<"-T ppm", "-r">>,
   <<"-r", "-T ppm">>, <<"-T jpeg", "-T ppm">>}

VARIABLES
  variant,        \* "jpeg" (jpeg-recompress) or "webp" (archive2webp)
  nargs,          \* argc - optind: the number of path arguments
  typeOpts,       \* the -r and -T options of the command line, in their order
  method, target, qMin, qMax, attempts,
  strip, copyFiles, accurate, noProgressive,
  inputFiletype,
  buf,            \* the bytes of the input file (bufSize = Len(buf))
  metaBuf, metaSize,
  min, max, quality, attempt, bestQuality, bestDiff,
  progressive, optimize,
  compressed,     \* the candidate of the last encode (wrt.mem in archive2webp)
  metric,         \* the score of the last candidate
  totalSize,
  pc, exitCode,
  output,         \* the bytes written to the output file so far
  outState,       \* "none", "open", "closed", "openfail", "writefail", "closefail"
  fault,          \* history: the output call the file system made fail ("none": none)
  cycles,         \* history: the number of encode calls made
  tried,          \* history: the <<quality, score>> of every scored candidate
  codec,          \* history: how the last encode and decode went ("none" before)
  run,            \* 1, or 2 when the tool runs again on its own output
  firstOut,       \* the output of run 1, during run 2
  firstWas,       \* how run 1 made it: "assembled" or "copied" ("none" in run 1)
  det,            \* TRUE when the run is recorded, to be made a second time
  memo,           \* the results of the codec calls of the recorded run
  trace,          \* the <<quality, min, max>> of every cycle of the run, in order
  first,          \* the end of the recorded run, once it is made again
  mem             \* the pointers of main(): what each holds, and every misuse

options ==
  <<variant, nargs, typeOpts, method, target, qMin, qMax, attempts, strip, copyFiles,
    accurate, noProgressive>>
search ==
  <<min, max, quality, attempt, bestQuality, bestDiff, progressive, optimize,
    compressed, metric, totalSize>>
history == <<cycles, tried, codec>>
runs == <<run, firstOut, firstWas>>
replay == <<det, memo, trace, first>>
vars ==
  <<options, inputFiletype, buf, metaBuf, metaSize, search, pc, exitCode,
    output, outState, fault, history, runs, replay, mem>>

\* No run has been recorded to its end.
NoRun ==
  [trace |-> <<>>, exitCode |-> -1, output |-> <<>>, outState |-> "none",
   fault |-> "none"]

\* Mutant of Recall: the codec answers the same call differently.
RecallNothing(key, fresh) == fresh

\* The codecs and the metrics are functions of their arguments: in a run made
\* a second time a call made before has the result it had.
Recall(key, fresh) ==
  IF first # NoRun /\ \E m \in memo : m[1] = key
    THEN {m[2] : m \in {x \in memo : x[1] = key}}
    ELSE fresh

\* The results of the calls of the recorded run, with one more.
Remembered(key, e) ==
  IF det /\ first = NoRun THEN memo \cup {<<key, e>>} ELSE memo

\* ----------------------------------------------------------------- buffers
\* The pointers of main() and the two codec objects of archive2webp.
Pointers ==
  {"buf", "original", "originalGray", "compressed", "compressedGray",
   "metaBuf", "decodedImage", "pic", "wrt"}

\* A pointer is "uninit" (declared without a value), "null", "live" (it owns
\* a buffer) or "dangling" (its buffer was released).  The codec objects are
\* "null" while they own nothing.
InitialMem ==
  [ptr |-> [p \in Pointers |->
              IF p \in {"buf", "original", "compressedGray"} THEN "uninit"
              ELSE "null"],
   bad |-> {}]

\* One step on a pointer p:
\*   "alloc"  a call stores a new buffer in p,
\*   "free"   free(p), which does nothing for a null pointer,
\*   "null"   p = NULL,
\*   "clear"  WebPMemoryWriterClear, WebPPictureFree: release and reset,
\*   "use"    the buffer of p is read.
MemStep(m, op) ==
  LET p == op[2]
      st == m.ptr[p]
      to(new) == [m EXCEPT !.ptr[p] = new]
      wrong(what) == [m EXCEPT !.bad = @ \cup {<<what, p>>}]
  IN CASE op[1] = "alloc" ->
            IF st = "live" THEN wrong("lost") ELSE to("live")
       [] op[1] = "free" ->
            IF st = "null" THEN m
            ELSE IF st = "live" THEN to("dangling")
            ELSE wrong("freed twice")
       [] op[1] = "null" ->
            IF st = "live" THEN wrong("lost") ELSE to("null")
       [] op[1] = "clear" ->
            IF st = "live" THEN to("null") ELSE m
       [] OTHER ->
            IF st \in {"dangling", "uninit"} THEN wrong("read after release")
            ELSE m

RECURSIVE MemRun(_, _)
\* The steps of ops, in their order; the state between two steps is a value
\* of its own, computed once.
MemRun(m, ops) ==
  IF ops = <<>> THEN m
  ELSE CHOOSE r \in {MemRun(next, Tail(ops)) :
                       next \in {MemStep(m, Head(ops))}} : TRUE

Op(kind, p) == <<<<kind, p>>>>

\* How far reading and decoding the input can get once the bytes are read and
\* decoded: "import" (WebPPictureImportRGB fails), "gray" (grayscale returns
\* 0), "ok".
LoadOutcomes(v) ==
  {[bytes |-> <<>>, status |-> o, score |-> 0] :
     o \in IF v = "jpeg" THEN {"ok", "gray"} ELSE {"ok", "import", "gray"}}

\* What reading and decoding the input does to the pointers, by how far it
\* gets: "empty" (readFile returns 0), "decode" (decodeFileFromBuffer returns
\* 0), and the three of LoadOutcomes.
LoadOps(v, outcome) ==
  IF outcome = "empty"
    THEN (IF v = "jpeg" THEN <<>> ELSE Op("clear", "wrt"))
  ELSE IF v = "jpeg"
    THEN Op("alloc", "buf") \o Op("use", "buf")
         \o (IF outcome = "decode" THEN Op("free", "buf")
             ELSE Op("alloc", "original") \o Op("use", "original")
                  \o (IF outcome = "gray"
                        THEN Op("free", "original") \o Op("free", "buf")
                        ELSE Op("alloc", "originalGray")))
    ELSE Op("alloc", "buf") \o Op("use", "buf")
         \o (IF outcome = "decode" THEN <<>> ELSE Op("alloc", "original"))
         \o Op("free", "buf")
         \o (IF outcome = "decode" THEN Op("clear", "wrt")
             ELSE Op("use", "original")
                  \o (IF outcome = "import"
                        THEN Op("clear", "wrt") \o Op("free", "original")
                        ELSE Op("alloc", "pic") \o Op("use", "original")
                             \o (IF outcome = "gray" THEN <<>>
                                 ELSE Op("alloc", "originalGray"))
                             \o Op("free", "original")
                             \o (IF outcome = "gray"
                                   THEN Op("clear", "wrt") \o Op("clear", "pic")
                                   ELSE <<>>)))

\* The metadata step: getMetadata on a JPEG input, then the return for a
\* signed file, or the strip.
MetadataOps(isJpeg, found, copy, stripFlag) ==
  (IF isJpeg THEN Op("use", "buf") ELSE <<>>)
  \o (IF found
        THEN Op("free", "originalGray") \o Op("free", "original")
             \o (IF copy THEN Op("use", "buf") ELSE <<>>)
             \o Op("free", "buf")
        ELSE (IF isJpeg THEN Op("alloc", "metaBuf") ELSE <<>>)
             \o (IF stripFlag THEN Op("free", "metaBuf") \o Op("null", "metaBuf")
                 ELSE <<>>))

\* Mutant of JpegReleaseAll: the metadata block is forgotten.
JpegReleaseAllButMetadata ==
  Op("free", "compressed") \o Op("free", "originalGray")
  \o Op("free", "original") \o Op("free", "buf")

\* The five frees before the return of a failed decode.
JpegReleaseAll ==
  Op("free", "compressed") \o Op("free", "metaBuf") \o Op("free", "originalGray")
  \o Op("free", "original") \o Op("free", "buf")

\* One cycle of jpeg-recompress; reject is "no", or for the size rejection
\* "copy" or "fail".
JpegCycleOps(status, reject) ==
  Op("free", "compressed") \o Op("null", "compressed") \o Op("use", "original")
  \o (IF status = "encfail" THEN <<>> ELSE Op("alloc", "compressed"))
  \o Op("use", "compressed")
  \o (IF status # "ok" THEN JpegReleaseAll
      ELSE Op("alloc", "compressedGray") \o Op("use", "originalGray")
           \o Op("use", "compressedGray") \o Op("free", "compressedGray")
           \o (IF reject = "no" THEN <<>>
               ELSE Op("free", "compressed") \o Op("free", "metaBuf")
                    \o Op("free", "originalGray") \o Op("free", "original")
                    \o (IF reject = "copy" THEN Op("use", "buf") ELSE <<>>)
                    \o Op("free", "buf")))

\* jpeg-recompress after the loop, by where it returns: "larger" (the size
\* test), "corrupt" (a marker test), "open", "write1" .. "write4", "close",
\* "none" (success).
JpegFinishOps(stage, hasMeta) ==
  Op("free", "originalGray") \o Op("free", "original")
  \o (IF stage = "larger"
        THEN Op("use", "buf") \o Op("free", "compressed")
             \o Op("free", "metaBuf") \o Op("free", "buf")
      ELSE Op("free", "buf") \o Op("use", "compressed")
           \o (IF stage \in {"corrupt", "open"}
                 THEN Op("free", "compressed") \o Op("free", "metaBuf")
               ELSE Op("use", "compressed")
                    \o (IF stage \in {"write1", "write2"}
                          THEN Op("free", "compressed") \o Op("free", "metaBuf")
                        ELSE (IF hasMeta
                                THEN Op("use", "metaBuf") \o Op("free", "metaBuf")
                                ELSE <<>>)
                             \o (IF stage = "write3"
                                   THEN Op("free", "compressed")
                                   ELSE Op("use", "compressed")
                                        \o Op("free", "compressed")))))

\* One cycle of archive2webp; status "grayfail" is a failed grayscale of the
\* decoded image.
WebpCycleOps(status) ==
  LET giveUp == Op("clear", "wrt") \o Op("clear", "pic")
                \o Op("free", "originalGray")
  IN Op("clear", "wrt") \o Op("use", "pic")
     \o (IF status = "encfail" THEN giveUp
         ELSE Op("alloc", "wrt") \o Op("use", "wrt")
              \o (IF status = "decfail" THEN giveUp
                  ELSE Op("alloc", "decodedImage") \o Op("use", "decodedImage")
                       \o (IF status = "grayfail" THEN <<>>
                           ELSE Op("alloc", "compressedGray"))
                       \o Op("free", "decodedImage")
                       \o (IF status = "grayfail" THEN giveUp
                           ELSE Op("use", "originalGray")
                                \o Op("use", "compressedGray")
                                \o Op("free", "compressedGray"))))

\* archive2webp after the loop.
WebpFinishOps(fail) ==
  Op("clear", "pic") \o Op("free", "originalGray")
  \o (IF fail = "open" THEN Op("clear", "wrt")
      ELSE Op("use", "wrt") \o Op("clear", "wrt"))

\* ------------------------------------------------------------------- Init
\* The state of a run before main() looks at its arguments.
Fresh ==
  /\ metaBuf = NULL /\ metaSize = 0
  /\ min = 0 /\ max = 0 /\ quality = 0 /\ attempt = 0
  /\ bestQuality = INT_MIN /\ bestDiff = FLT_MAX
  /\ progressive = 0 /\ optimize = 0
  /\ compressed = NULL /\ metric = 0 /\ totalSize = 0
  /\ pc = "args" /\ exitCode = -1
  /\ output = <<>> /\ outState = "none" /\ fault = "none"
  /\ cycles = 0 /\ tried = {} /\ codec = "none"

Init ==
  /\ Fresh
  /\ run = 1 /\ firstOut = <<>> /\ firstWas = "none"
  /\ det = FALSE /\ memo = {} /\ trace = <<>> /\ first = NoRun
  /\ mem = InitialMem
  /\ inputFiletype = "AUTO"
  /\ variant \in {"jpeg", "webp"}
  /\ \/ \* a well-formed command line
        /\ nargs = 2
        /\ typeOpts = <<>>
        /\ method \in Methods
        /\ target \in Targets
        /\ qMin \in Qualities /\ qMax \in Qualities
        /\ attempts \in 0..MaxAttempts
        /\ buf \in InputFiles
        \* --strip and --no-copy of jpeg-recompress vary under --method ssim
        \* and mpe, --accurate and --no-progressive under ssim without the
        \* other two; elsewhere the flags keep their defaults
        /\ IF variant = "jpeg" /\ method \in {"SSIM", "MPE"}
             THEN strip \in BOOLEAN /\ copyFiles \in BOOLEAN
             ELSE strip = FALSE /\ copyFiles = TRUE
        /\ IF variant = "jpeg" /\ method = "SSIM" /\ ~strip /\ copyFiles
             THEN accurate \in BOOLEAN /\ noProgressive \in BOOLEAN
             ELSE accurate = FALSE /\ noProgressive = FALSE
     \/ \* a wrong number of paths, an unknown --method, or -r and -T options
        /\ \/ /\ nargs \in {1, 3} /\ method \in Methods \cup {"UNKNOWN"}
              /\ typeOpts \in TypeOptions
           \/ nargs = 2 /\ method = "UNKNOWN" /\ typeOpts \in TypeOptions
           \/ nargs = 2 /\ method = "SSIM" /\ typeOpts \in TypeOptions \ {<<>>}
        /\ target = 1 /\ qMin \in Qualities /\ qMax \in Qualities
        /\ attempts = MaxAttempts
        /\ buf = PpmFile
        /\ strip = FALSE /\ copyFiles = TRUE
        /\ accurate = FALSE /\ noProgressive = FALSE

\* main() returns: nothing else changes.
Exit(code) ==
  /\ pc' = "done"
  /\ exitCode' = code

\* --------------------------------------------------------------- arguments
RECURSIVE ScanTypeOptions(_, _)
\* The cases 'r' and 'T' of the option loop: the input type they leave, and
\* whether a -T met a type already set.
ScanTypeOptions(opts, type) ==
  IF opts = <<>> THEN [conflict |-> FALSE, type |-> type]
  ELSE IF Head(opts) = "-r" THEN ScanTypeOptions(Tail(opts), "PPM")
  ELSE IF type # "AUTO" THEN [conflict |-> TRUE, type |-> type]
  ELSE ScanTypeOptions(Tail(opts),
                       CASE Head(opts) = "-T jpeg" -> "JPEG"
                         [] Head(opts) = "-T ppm" -> "PPM"
                         [] OTHER -> "AUTO")

\* The returns of main() before the input is read: in the option loop, and
\* in the checks after it.
ArgsError ==
  IF ScanTypeOptions(typeOpts, "AUTO").conflict THEN 1
  ELSE IF nargs # 2 THEN 255
  ELSE IF method = "UNKNOWN" THEN 255
  ELSE IF qMin > qMax THEN 1
  ELSE 0

ParseArgs ==
  /\ pc = "args"
  /\ IF ArgsError # 0
       THEN Exit(ArgsError) /\ UNCHANGED inputFiletype
       ELSE /\ pc' = "read" /\ exitCode' = exitCode
            /\ inputFiletype' = ScanTypeOptions(typeOpts, "AUTO").type
  /\ UNCHANGED <<options, buf, metaBuf, metaSize, search,
                 output, outState, fault, history, runs, replay, mem>>

\* ------------------------------------------------------------------ output
\* What opening, writing and closing the output can do: "none" is success,
\* the others name the call that fails.
CopyOutcomes == {"none", "open", "write", "close"}

\* What the file system does to the output calls of this run: any of all,
\* and in a run made a second time what it did the first time.
Faults(all) ==
  IF first # NoRun /\ first.outState # "none" /\ first.fault \in all
    THEN {first.fault}
    ELSE all

\* copyFile(outputPath, buf, bufSize): the state of the output after it.
CopyFileState(io) ==
  CASE io = "open" -> "openfail"
    [] io = "write" -> "writefail"
    [] io = "close" -> "closefail"
    [] OTHER -> "closed"
CopyFileBytes(b, io) == IF io \in {"open", "write"} THEN <<>> ELSE b

\* ------------------------------------------------------------------- input
\* detectFiletypeFromBuffer: by the magic bytes.
DetectFiletype(b) ==
  IF IsPrefix(SOI, b) THEN "JPEG"
  ELSE IF IsPrefix(<<80, 54>>, b) THEN "PPM"
  ELSE "UNKNOWN"
\* decodeFileFromBuffer returns a size > 0.
DecodeOk(b, type) == type # "UNKNOWN" /\ DetectFiletype(b) = type

\* Mutant of InitialAttempt: the counter starts one too high.
InitialAttemptOffByOne(n) == n

\* for (int attempt = attempts - 1; ...
InitialAttempt(n) == n - 1

\* The loop variables as the for statement initialises them.
EnterSearch ==
  /\ min' = qMin /\ max' = qMax
  /\ attempt' = InitialAttempt(attempts)
  /\ bestQuality' = INT_MIN /\ bestDiff' = FLT_MAX
  /\ UNCHANGED <<quality, progressive, optimize, compressed, metric, totalSize>>

\* readFile, detectFiletypeFromBuffer, decodeFileFromBuffer, grayscale.
LoadInput ==
  /\ pc = "read"
  /\ LET type == IF inputFiletype = "AUTO" THEN DetectFiletype(buf)
                 ELSE inputFiletype
     IN IF Len(buf) = 0
          THEN /\ Exit(1) /\ UNCHANGED <<inputFiletype, search, memo>>
               /\ mem' = MemRun(mem, LoadOps(variant, "empty"))
          ELSE /\ inputFiletype' = type
               /\ IF ~DecodeOk(buf, type)
                    THEN /\ Exit(1) /\ UNCHANGED <<search, memo>>
                         /\ mem' = MemRun(mem, LoadOps(variant, "decode"))
                    ELSE \E e \in Recall(<<0>>, LoadOutcomes(variant)) :
                           /\ mem' = MemRun(mem, LoadOps(variant, e.status))
                           /\ memo' = Remembered(<<0>>, e)
                           /\ IF e.status # "ok"
                                THEN Exit(1) /\ UNCHANGED search
                              ELSE IF variant = "jpeg"
                                THEN /\ pc' = "meta" /\ exitCode' = exitCode
                                     /\ UNCHANGED search
                                ELSE /\ pc' = "search" /\ exitCode' = exitCode
                                     /\ EnterSearch
  /\ UNCHANGED <<options, buf, metaBuf, metaSize, output, outState, fault,
                 history, runs, det, trace, first>>

\* ---------------------------------------------------------------- metadata
RECURSIVE ScanMarkers(_, _, _)
\* The marker scan of getMetadata from byte pos (1-based) on: stop at the scan
\* data, skip the markers without a length, report the signature comment,
\* collect the APP1..APP15 and comment segments.
ScanMarkers(b, pos, acc) ==
  IF pos + 1 > Len(b) \/ b[pos] # 255 \/ b[pos + 1] = 218
    THEN [found |-> FALSE, meta |-> acc]
  ELSE IF b[pos + 1] \in 208..217
    THEN ScanMarkers(b, pos + 2, acc)
  ELSE IF pos + 3 > Len(b)
    THEN [found |-> FALSE, meta |-> acc]
  ELSE LET size == b[pos + 2] * 256 + b[pos + 3]
           seg == SubSeq(b, pos, IF pos + 1 + size > Len(b) THEN Len(b)
                                 ELSE pos + 1 + size)
       IN IF b[pos + 1] = 254 /\ IsPrefix(COMMENT, Drop(seg, 4))
            THEN [found |-> TRUE, meta |-> <<>>]
          ELSE IF b[pos + 1] \in 225..239 \/ b[pos + 1] = 254
            THEN ScanMarkers(b, pos + 2 + size, acc \o seg)
          ELSE ScanMarkers(b, pos + 2 + size, acc)

\* getMetadata(buf, bufSize, &metaBuf, &metaSize, COMMENT): found is its
\* return value, meta the buffer it fills.
GetMetadata(b) == ScanMarkers(b, 1, <<>>)

\* Mutant of metaSizeCOM: the marker and length bytes are not counted.
metaSizeCOMNoHeader == Len(COMMENT)

\* strlen(COMMENT) + 4
metaSizeCOM == Len(COMMENT) + 4

\* Mutant of AlreadyProcessedExit: the refusal returns the generic failure code.
AlreadyProcessedExitGeneric(copy) == IF copy THEN 0 ELSE 1

\* The exit code for a file that carries the signature comment.
AlreadyProcessedExit(copy) == IF copy THEN 0 ELSE 2

\* Mutant of KeptMetadata: --strip is ignored.
KeptMetadataAlways(stripFlag, meta) == meta

\* Mutant of KeptMetadata: the metadata is dropped whether --strip is given or not.
KeptMetadataDropped(stripFlag, meta) == NULL

\* if (strip) { metaSize = 0; free(metaBuf); metaBuf = NULL; }
KeptMetadata(stripFlag, meta) == IF stripFlag THEN NULL ELSE meta

\* The metadata step of jpeg-recompress: an already processed file is copied
\* or refused; otherwise the metadata is kept, or dropped under --strip.
ReadMetadata ==
  /\ pc = "meta"
  /\ LET md == IF inputFiletype = "JPEG" THEN GetMetadata(buf)
               ELSE [found |-> FALSE, meta |-> NULL]
     IN /\ IF md.found
          THEN /\ IF copyFiles
                    THEN \E io \in Faults(CopyOutcomes) :
                           /\ output' = CopyFileBytes(buf, io)
                           /\ outState' = CopyFileState(io)
                           /\ fault' = io
                           /\ Exit(AlreadyProcessedExit(copyFiles))
                    ELSE /\ Exit(AlreadyProcessedExit(copyFiles))
                         /\ UNCHANGED <<output, outState, fault>>
               /\ UNCHANGED <<metaBuf, metaSize, search>>
          ELSE /\ metaBuf' = KeptMetadata(strip, md.meta)
               /\ metaSize' = IF KeptMetadata(strip, md.meta) = NULL THEN 0
                               ELSE Len(md.meta)
               /\ EnterSearch
               /\ pc' = "search" /\ exitCode' = exitCode
               /\ UNCHANGED <<output, outState, fault>>
        /\ mem' = MemRun(mem, MetadataOps(inputFiletype = "JPEG", md.found,
                                          copyFiles, strip))
  /\ UNCHANGED <<options, inputFiletype, buf, history, runs, replay>>

\* ------------------------------------------------------------------ search
Abs(x) == IF x < 0 THEN -x ELSE x
MIN(a, b) == IF a < b THEN a ELSE b
MAX(a, b) == IF a > b THEN a ELSE b

\* quality = (min + max) / 2
Mid(lo, hi) == (lo + hi) \div 2

\* Mutant of IsFinal: no cycle is made final before the budget ends.
IsFinalNever(q, best, lo, hi) == FALSE

\* Mutant of IsFinal: the test of a collapsed interval is missing.
IsFinalRevisitOnly(q, best, lo, hi) == q = best

\* The two tests that set attempt to 0.
IsFinal(q, best, lo, hi) == q = best \/ lo = hi

\* progressive = attempt ? 0 : !noProgressive
Progressive(att, noProg) == IF att # 0 THEN 0 ELSE IF noProg THEN 0 ELSE 1
\* Mutant of Optimize: every cycle asks for the optimized tables.
OptimizeAlways(att, acc) == 1

\* optimize = accurate ? 1 : (attempt ? 0 : 1)
Optimize(att, acc) == IF acc THEN 1 ELSE IF att # 0 THEN 0 ELSE 1

\* Mutant of Improves: a tie replaces the best candidate.
ImprovesOrEqual(newDiff, best) == newDiff <= best

\* Mutant of Improves: the comparison is reversed.
ImprovesReversed(newDiff, best) == newDiff > best

\* if (newDiff < bestDiff)
Improves(newDiff, best) == newDiff < best

\* Mutant of RaiseQuality: MPE is treated like the other metrics.
RaiseQualityOnePolarity(m, score, tgt) == score < tgt

\* The branch taken after scoring: TRUE when the code raises min ("too
\* distorted, increase quality"), FALSE when it lowers max.
RaiseQuality(m, score, tgt) ==
  IF score < tgt THEN m \in {"SSIM", "MS_SSIM", "SMALLFRY"} ELSE m = "MPE"

\* Mutant of NewMin: the new bound keeps the quality just tried.
NewMinNoStep(q, hi) == MIN(q, hi)

\* Mutant of NewMin: the new bound is not clamped to max.
NewMinUnclamped(q, hi) == q + 1

\* min = MIN(quality + 1, max)
NewMin(q, hi) == MIN(q + 1, hi)
\* Mutant of NewMax: the new bound is not clamped to min.
NewMaxUnclamped(q, lo) == q - 1

\* max = MAX(quality - 1, min)
NewMax(q, lo) == MAX(q - 1, lo)

\* totalSize = compressedSize + metaSizeCOM + metaSize
TotalSize(compressedSize, metaSz) == compressedSize + metaSizeCOM + metaSz
\* totalSize + minDelta >= bufSize
TooLarge(total, bufSize) == total + minDelta >= bufSize
\* The in-loop size test of jpeg-recompress.
RejectInLoop(score, tgt, total, bufSize) == score < tgt /\ TooLarge(total, bufSize)

\* What encodeJpeg returns for <<quality, progressive, optimize>>: a JPEG
\* stream whose scan data records the arguments; pad is its extra size.
JpegCandidate(q, prog, opt, pad) ==
  SOI \o APP0 \o SOS \o <<q, 2 * prog + opt>> \o Zeros(pad) \o EOI
\* A stream of an encoder that writes no JFIF header: a table follows the
\* start marker.
JpegCandidateNoHeader(q, prog, opt) ==
  SOI \o DQT \o SOS \o <<q, 2 * prog + opt>> \o EOI
\* What WebPEncode leaves in the memory writer; the largest is longer than
\* the input files.
WebpCandidate(q, pad) == <<82, 73, 70, 70, q>> \o Zeros(4 * pad)

\* The record of a cycle: its codec call and result while the run is recorded,
\* its quality and the bounds it leaves.
Record(key, e, q, lo, hi) ==
  /\ memo' = Remembered(key, e)
  /\ trace' = IF det THEN Append(trace, <<q, lo, hi>>) ELSE trace
  /\ UNCHANGED <<det, first>>

\* Mutant of CodecFailed: only a failed encode ends the run.
CodecFailedEncodeOnly(status) == status = "encfail"

\* if (!compressedGraySize) in jpeg-recompress; if (!ok) and
\* if (decodedImage == NULL) in archive2webp.
CodecFailed(status) == status # "ok"

\* The run searches a range of qualities beyond the small ones, such as the
\* default range.  What such a run is checked for is the sequence of its
\* qualities and bounds, which the codecs influence through the score alone:
\* there each candidate has the smallest size and a well-formed header, and
\* scores one level below the target, on it, or one level above.
WideRange == qMax > MaxQ
Pads == IF WideRange THEN {0} ELSE PadSizes
Levels == IF WideRange THEN {target - 1, target, target + 1} ELSE Scores

\* encodeJpeg, decodeJpeg and the metric: a candidate, whether it decodes, its
\* score.  A call with the arguments of the call before it repeats its result.
\* The result of encodeJpeg is not tested: a failed encode leaves nothing to
\* decode, and decodeJpeg returns 0.
JpegEncode(q, prog, opt) ==
  IF compressed # NULL /\ <<q, prog, opt>> = <<quality, progressive, optimize>>
    THEN {[bytes |-> compressed, status |-> "ok", score |-> metric]}
    ELSE Recall(<<q, prog, opt>>,
           {[bytes |-> JpegCandidate(q, prog, opt, p), status |-> "ok",
             score |-> s] : p \in Pads, s \in Levels}
           \cup (IF WideRange THEN {}
                 ELSE {[bytes |-> JpegCandidateNoHeader(q, prog, opt),
                        status |-> "ok", score |-> s] : s \in Levels})
           \cup {[bytes |-> NULL, status |-> "encfail", score |-> 0],
                 [bytes |-> JpegCandidate(q, prog, opt, 0), status |-> "decfail",
                  score |-> 0]})

\* WebPEncode, WebPDecodeRGB and the metric.
WebpEncode(q) ==
  IF compressed # NULL /\ q = quality
    THEN {[bytes |-> compressed, status |-> "ok", score |-> metric]}
    ELSE Recall(<<q>>,
           {[bytes |-> WebpCandidate(q, p), status |-> "ok", score |-> s] :
              p \in Pads, s \in Levels}
           \cup {[bytes |-> <<>>, status |-> "encfail", score |-> 0],
                 [bytes |-> WebpCandidate(q, 0), status |-> "decfail",
                  score |-> 0],
                 [bytes |-> WebpCandidate(q, 0), status |-> "grayfail",
                  score |-> 0]})

\* The part of a cycle both programs share, from the score on: the best
\* candidate so far and the history.
Score(q, score) ==
  /\ metric' = score
  /\ tried' = tried \cup {<<q, score>>}
  /\ bestDiff' = IF Improves(Abs(target - score), bestDiff)
                   THEN Abs(target - score) ELSE bestDiff
  /\ bestQuality' = IF Improves(Abs(target - score), bestDiff)
                      THEN q ELSE bestQuality

\* The bound update that ends a cycle, and the step of the for statement.
UpdateBounds(q, score, att) ==
  /\ min' = IF RaiseQuality(method, score, target) THEN NewMin(q, max) ELSE min
  /\ max' = IF RaiseQuality(method, score, target) THEN max ELSE NewMax(q, min)
  /\ attempt' = att - 1
  /\ pc' = "search" /\ exitCode' = exitCode

\* One iteration of the loop of jpeg-recompress.
JpegCycle ==
  /\ variant = "jpeg" /\ pc = "search" /\ attempt >= 0
  /\ LET q == Mid(min, max)
         att == IF IsFinal(q, bestQuality, min, max) THEN 0 ELSE attempt
         prog == Progressive(att, noProgressive)
         opt == Optimize(att, accurate)
     IN \E e \in JpegEncode(q, prog, opt) :
          /\ quality' = q /\ progressive' = prog /\ optimize' = opt
          /\ compressed' = e.bytes
          /\ cycles' = cycles + 1
          /\ codec' = e.status
          /\ IF CodecFailed(e.status)
               THEN /\ Exit(1)
                    /\ attempt' = att
                    /\ UNCHANGED <<min, max, bestQuality, bestDiff, metric,
                                   totalSize, tried, output, outState, fault>>
               ELSE /\ Score(q, e.score)
                    /\ totalSize' = TotalSize(Len(e.bytes), metaSize)
                    /\ IF RejectInLoop(e.score, target, totalSize', Len(buf))
                         THEN /\ attempt' = att
                              /\ UNCHANGED <<min, max>>
                              /\ IF copyFiles
                                   THEN \E io \in Faults(CopyOutcomes) :
                                          /\ output' = CopyFileBytes(buf, io)
                                          /\ outState' = CopyFileState(io)
                                          /\ fault' = io
                                          /\ Exit(0)
                                   ELSE Exit(1) /\ UNCHANGED <<output, outState, fault>>
                         ELSE /\ UpdateBounds(q, e.score, att)
                              /\ UNCHANGED <<output, outState, fault>>
          /\ mem' = MemRun(mem, JpegCycleOps(e.status,
                         IF CodecFailed(e.status)
                            \/ ~RejectInLoop(e.score, target, totalSize', Len(buf))
                           THEN "no"
                         ELSE IF copyFiles THEN "copy" ELSE "fail"))
          /\ Record(<<q, prog, opt>>, e, q, min', max')
  /\ UNCHANGED <<options, inputFiletype, buf, metaBuf, metaSize, runs>>

\* One iteration of the loop of archive2webp.
WebpCycle ==
  /\ variant = "webp" /\ pc = "search" /\ attempt >= 0
  /\ LET q == Mid(min, max)
         att == IF IsFinal(q, bestQuality, min, max) THEN 0 ELSE attempt
     IN \E e \in WebpEncode(q) :
          /\ quality' = q
          /\ compressed' = e.bytes
          /\ cycles' = cycles + 1
          /\ codec' = e.status
          /\ IF CodecFailed(e.status)
               THEN /\ Exit(1)
                    /\ attempt' = att
                    /\ UNCHANGED <<min, max, bestQuality, bestDiff, metric, tried>>
               ELSE /\ Score(q, e.score)
                    /\ UpdateBounds(q, e.score, att)
          /\ mem' = MemRun(mem, WebpCycleOps(e.status))
          /\ Record(<<q>>, e, q, min', max')
  /\ UNCHANGED <<options, inputFiletype, buf, metaBuf, metaSize, progressive,
                 optimize, totalSize, output, outState, fault, runs>>

\* ---------------------------------------------------------------- assembly
\* checkJpegMagic(compressed, compressedSize)
CheckJpegMagic(c) == c # NULL /\ IsPrefix(SOI, c)
\* Mutant of HasApp0: any marker after the start marker is accepted.
HasApp0AnyMarker(c) == Len(c) >= 4 /\ c[3] = 255

\* compressed[2] == 0xff && compressed[3] == 0xe0
HasApp0(c) == Len(c) >= 4 /\ c[3] = 255 /\ c[4] = 224
\* Mutant of App0LenP4: the four bytes of marker and length are not counted.
App0LenNoMarker(c) == c[5] * 256 + c[6]

\* app0_lenP4 = 4 + (compressed[4] << 8) + compressed[5]
App0LenP4(c) == 4 + c[5] * 256 + c[6]
\* Mutant of ComHeader: the comment is written under an APP1 marker.
ComHeaderWrongMarker == <<255, 225, 0, (Len(COMMENT) + 2) % 256>>

\* The four fputc calls before the comment.
ComHeader == <<255, 254, 0, (Len(COMMENT) + 2) % 256>>

\* The calls of the assembly that can fail; the metadata is written only
\* when metaBuf is not NULL.
AssembleOutcomes(meta) ==
  {"none", "open", "write1", "write2", "write4", "close"}
    \cup (IF meta = NULL THEN {} ELSE {"write3"})

\* The first call of the assembly that fails under io; fwrite(p, n, 1, f)
\* returns 0, which the code takes as a failure, when n is 0.
FailPoint(c, meta, io) ==
  IF io = "open" THEN "open"
  ELSE IF io = "write1" \/ App0LenP4(c) = 0 THEN "write1"
  ELSE IF io = "write2" \/ Len(COMMENT) = 0 THEN "write2"
  ELSE IF meta # NULL /\ (io = "write3" \/ Len(meta) = 0) THEN "write3"
  ELSE IF io = "write4" \/ Len(c) - App0LenP4(c) = 0 THEN "write4"
  ELSE io

\* The bytes the assembly has written when it stops at fail ("none": all).
Assemble(c, meta, fail) ==
  IF fail \in {"open", "write1"} THEN <<>>
  ELSE Take(c, App0LenP4(c)) \o ComHeader
       \o (IF fail = "write2" THEN <<>>
           ELSE COMMENT
                \o (IF fail = "write3" \/ meta = NULL THEN <<>> ELSE meta)
                \o (IF fail \in {"write3", "write4"} THEN <<>>
                    ELSE Drop(c, App0LenP4(c))))

AssembleState(fail) ==
  CASE fail = "open" -> "openfail"
    [] fail \in {"write1", "write2", "write3", "write4"} -> "writefail"
    [] fail = "close" -> "closefail"
    [] OTHER -> "closed"

\* if (totalSize >= bufSize) after the loop
LargerThanInput(total, bufSize) == total >= bufSize

\* jpeg-recompress after the loop: the size test, the two marker tests, the
\* assembly of the output.
JpegFinish ==
  /\ variant = "jpeg" /\ pc = "search" /\ attempt < 0
  /\ IF LargerThanInput(totalSize, Len(buf))
       THEN \E io \in Faults(CopyOutcomes) :
              /\ output' = CopyFileBytes(buf, io)
              /\ outState' = CopyFileState(io)
              /\ fault' = io
              /\ Exit(1)
              /\ mem' = MemRun(mem, JpegFinishOps("larger", metaBuf # NULL))
     ELSE IF ~CheckJpegMagic(compressed) \/ ~HasApp0(compressed)
       THEN /\ Exit(1) /\ UNCHANGED <<output, outState, fault>>
            /\ mem' = MemRun(mem, JpegFinishOps("corrupt", metaBuf # NULL))
     ELSE \E io \in Faults(AssembleOutcomes(metaBuf)) :
            LET fail == FailPoint(compressed, metaBuf, io)
            IN /\ output' = Assemble(compressed, metaBuf, fail)
               /\ outState' = AssembleState(fail)
               /\ fault' = io
               /\ Exit(IF fail = "none" THEN 0 ELSE 1)
               /\ mem' = MemRun(mem, JpegFinishOps(fail, metaBuf # NULL))
  /\ UNCHANGED <<options, inputFiletype, buf, metaBuf, metaSize, search,
                 history, runs, replay>>

\* Mutant of WebpEmitted: the size guard of jpeg-recompress, with its copy.
WebpEmittedIfSmaller(c, original) ==
  IF Len(c) >= Len(original) THEN original ELSE c

\* fwrite(wrt.mem, wrt.size, 1, file): the bytes archive2webp writes.
WebpEmitted(c, original) == c

\* archive2webp after the loop: the last candidate is written as it is.
WebpFinish ==
  /\ variant = "webp" /\ pc = "search" /\ attempt < 0
  /\ \E io \in Faults(CopyOutcomes) :
       LET fail == IF io = "open" THEN "open"
                   ELSE IF io = "write" \/ compressed = NULL \/ Len(compressed) = 0
                     THEN "write"
                   ELSE io
       IN /\ output' = IF fail \in {"open", "write"} THEN <<>>
                       ELSE WebpEmitted(compressed, buf)
          /\ outState' = CopyFileState(fail)
          /\ fault' = io
          /\ Exit(IF fail = "none" THEN 0 ELSE 1)
          /\ mem' = MemRun(mem, WebpFinishOps(fail))
  /\ UNCHANGED <<options, inputFiletype, buf, metaBuf, metaSize, search,
                 history, runs, replay>>

\* ----------------------------------------------------------------- restart
\* main() is entered again: every variable of the run has its initial value.
Restart ==
  /\ inputFiletype' = "AUTO"
  /\ metaBuf' = NULL /\ metaSize' = 0
  /\ min' = 0 /\ max' = 0 /\ quality' = 0 /\ attempt' = 0
  /\ bestQuality' = INT_MIN /\ bestDiff' = FLT_MAX
  /\ progressive' = 0 /\ optimize' = 0
  /\ compressed' = NULL /\ metric' = 0 /\ totalSize' = 0
  /\ pc' = "args" /\ exitCode' = -1
  /\ output' = <<>> /\ outState' = "none" /\ fault' = "none"
  /\ cycles' = 0 /\ tried' = {} /\ codec' = "none"
  /\ mem' = InitialMem

\* ------------------------------------------------------------------- rerun
\* jpeg-recompress is run again, with the same options and copying enabled,
\* on the output of a run that ended with exit code 0 and a complete output.
Rerun ==
  /\ run = 1 /\ variant = "jpeg" /\ first = NoRun
  /\ pc = "done" /\ exitCode = 0 /\ outState = "closed"
  /\ run' = 2 /\ firstOut' = output
  /\ firstWas' = IF attempt < 0 THEN "assembled" ELSE "copied"
  /\ buf' = output
  /\ copyFiles' = TRUE
  /\ Restart
  /\ memo' = {} /\ trace' = <<>>
  /\ UNCHANGED <<variant, nargs, typeOpts, method, target, qMin, qMax, attempts,
                 strip, accurate, noProgressive, det, first>>

\* ------------------------------------------------------------------ replay
\* The recorded run is made a second time: the same program on the same input
\* with the same options, the codecs and the file system behaving as before.
Replay ==
  /\ det /\ first = NoRun /\ pc = "done"
  /\ first' = [trace |-> trace, exitCode |-> exitCode, output |-> output,
               outState |-> outState, fault |-> fault]
  /\ trace' = <<>>
  /\ Restart
  /\ UNCHANGED <<options, buf, runs, det, memo>>

\* ----------------------------------------------------------- specification
Next ==
  \/ ParseArgs
  \/ LoadInput
  \/ ReadMetadata
  \/ JpegCycle
  \/ WebpCycle
  \/ JpegFinish
  \/ WebpFinish
  \/ Rerun

Spec == Init /\ [][Next]_vars

\* The recorded runs: both programs, the two polarities, the full range of
\* qualities and attempts, each kind of input.
DetInit ==
  /\ Fresh
  /\ run = 1 /\ firstOut = <<>> /\ firstWas = "none"
  /\ det = TRUE /\ memo = {} /\ trace = <<>> /\ first = NoRun
  /\ mem = InitialMem
  /\ inputFiletype = "AUTO"
  /\ variant \in {"jpeg", "webp"}
  /\ nargs = 2 /\ typeOpts = <<>>
  /\ method \in {"SSIM", "MPE"}
  /\ target = 1
  /\ qMin = 1 /\ qMax = MaxQ
  /\ attempts = MaxAttempts
  /\ buf \in InputFiles \ {<<>>, Garbage}
  /\ strip = FALSE /\ copyFiles = TRUE
  /\ accurate = FALSE /\ noProgressive = FALSE

DetNext == Next \/ Replay

\* The runs with the defaults of both programs, --loops 8 --min 1 --max 99,
\* and over two shorter ranges, under each method, on an input that no
\* candidate outgrows.
DefaultInit ==
  /\ Fresh
  /\ run = 1 /\ firstOut = <<>> /\ firstWas = "none"
  /\ det = FALSE /\ memo = {} /\ trace = <<>> /\ first = NoRun
  /\ mem = InitialMem
  /\ inputFiletype = "AUTO"
  /\ variant \in {"jpeg", "webp"}
  /\ nargs = 2 /\ typeOpts = <<>>
  /\ method \in Methods
  /\ target = 1
  /\ \/ qMin = DefaultQMin /\ qMax = DefaultQMax
     \/ qMin = 40 /\ qMax = 60
     \/ qMin = 3 /\ qMax = 10
  /\ attempts = DefaultAttempts
  /\ buf = LargePpm
  /\ strip = FALSE /\ copyFiles = TRUE
  /\ accurate = FALSE /\ noProgressive = FALSE

DefaultSpec == DefaultInit /\ [][Next]_vars

DetSpec == DetInit /\ [][DetNext]_vars

\* ------------------------------------------------------------------ claims
\* The loop has been left: by its condition (attempt < 0), or by a return
\* inside a cycle.
SearchOver ==
  \/ pc \in {"search", "done"} /\ attempt < 0
  \/ pc = "done" /\ cycles >= 1

\* The run has written the candidate of the search to the output and
\* returned 0: the only return 0 after the loop, in both programs.
Emitted == pc = "done" /\ exitCode = 0 /\ attempt < 0

\* The score is on the side of the target that needs no more quality.
Sufficient(score) == IF method = "MPE" THEN score < target ELSE score >= target

\* C1: whenever a run writes a search candidate to the output, the candidate
\* written is the one encoded at the final bestQuality.
C1_EmittedAtBestQuality == Emitted => quality = bestQuality

\* C2: if some quality tried during the search scored on the sufficient side
\* of the target, the candidate written to the output did so too.
C2_EmittedMeetsTarget ==
  (Emitted /\ \E t \in tried : Sufficient(t[2])) => Sufficient(metric)

\* C3: jpeg-recompress with copying enabled: whenever the totalSize of the
\* last candidate has totalSize + 10 >= the size of the input, the run
\* returns 0 and the output, once written, is the input unchanged.
C3_SizeGuardCopiesThrough ==
  (/\ variant = "jpeg" /\ copyFiles
   /\ pc = "done" /\ tried # {} /\ compressed # NULL
   /\ <<quality, metric>> \in tried
   /\ totalSize + minDelta >= Len(buf))
  => (exitCode = 0 /\ (outState = "closed" => output = buf))

\* C4: the loop makes at most `attempts` cycles and ends: the cycles made plus
\* the cycles the counter still allows never exceed attempts, and a run that
\* has not returned can always take a step.
C4_AtMostAttemptsCycles ==
  /\ cycles <= attempts
  /\ pc = "search" => (attempt >= -1 /\ cycles + attempt + 1 <= attempts)
  /\ pc # "done" => ENABLED Next

\* The budget has ended the search: the next cycle would have tried a
\* quality not tried yet.
C4_Witness ==
  /\ pc = "search" /\ attempt < 0
  /\ cycles = attempts /\ attempts = MaxAttempts
  /\ \A t \in tried : t[1] # Mid(min, max)

\* C5: min <= max in every state of the search, and the search is entered
\* only with qMin <= qMax.
C5_MinLeMax ==
  /\ min <= max
  /\ pc \in {"read", "meta", "search"} => qMin <= qMax

\* A cycle has raised min to max, where quality + 1 would have passed it.
C5_Witness ==
  pc = "search" /\ cycles >= 1 /\ qMin < qMax /\ min = max /\ quality = max
  /\ RaiseQuality(method, metric, target)

\* C6 as stated: with qMin = qMax the search makes exactly one cycle,
\* whatever the attempt count.
C6_OneCycleAnyAttempts == (qMin = qMax /\ SearchOver) => cycles = 1

\* C6 as amended: with qMin = qMax and attempts >= 1 the search makes exactly
\* one cycle.
C6_OneCycle ==
  (qMin = qMax /\ attempts >= 1)
  => (cycles <= 1 /\ (SearchOver => cycles = 1))

C6_Witness ==
  qMin = qMax /\ attempts = MaxAttempts /\ Emitted /\ cycles = 1

\* C7: after every cycle bestQuality is a quality tried so far, bestDiff is
\* the distance of one of its scores to the target, and no candidate scored
\* so far is closer to the target.
C7_BestIsClosest ==
  tried # {} =>
    /\ \E t \in tried : t[1] = bestQuality /\ Abs(target - t[2]) = bestDiff
    /\ \A t \in tried : bestDiff <= Abs(target - t[2])

\* The best candidate is that of an earlier cycle, strictly closer than the
\* last one.
C7_Witness ==
  pc = "search" /\ cycles >= 2 /\ bestQuality # quality
  /\ bestDiff < Abs(target - metric)

\* C8: a scored cycle moves one bound and leaves the other: for SSIM, MS-SSIM
\* and Smallfry a score below the target gives min = MIN(quality + 1, max),
\* a score at or above it max = MAX(quality - 1, min); for MPE the two cases
\* are swapped.
C8_BoundUpdate ==
  [][(cycles' = cycles + 1 /\ pc' = "search") =>
       IF (method \in {"SSIM", "MS_SSIM", "SMALLFRY"}) = (metric' < target)
         THEN min' = MIN(quality' + 1, max) /\ max' = max
         ELSE max' = MAX(quality' - 1, min) /\ min' = min]_vars

\* An MPE score below the target has lowered the upper bound.
C8_Witness ==
  method = "MPE" /\ pc = "search" /\ cycles = 1 /\ metric < target
  /\ max < qMax /\ min = qMin

\* The input is a JPEG file that carries the signature comment, given to
\* jpeg-recompress with a well-formed command line.
SignedInput ==
  /\ variant = "jpeg" /\ ArgsError = 0
  /\ DetectFiletype(buf) = "JPEG" /\ GetMetadata(buf).found

\* readFile has stored the bytes of the input in buf.
InputWasRead == mem.ptr["buf"] # "uninit"

\* The run ended on a file it could not load: the bytes were read, and the
\* decoder or the luma conversion returned 0.
LoadFailed == pc = "done" /\ InputWasRead /\ mem.ptr["originalGray"] = "null"

\* C9: on a signed JPEG input jpeg-recompress makes no cycle; once the image
\* is loaded, with copying enabled it returns 0 and the output, once written,
\* is the input; with copying disabled it returns 2 and writes nothing.  No
\* other run returns 2.
C9_AlreadyProcessed ==
  /\ SignedInput =>
       /\ cycles = 0 /\ pc # "search" /\ compressed = NULL
       /\ (pc = "done" /\ ~LoadFailed) =>
            IF copyFiles
              THEN /\ exitCode = 0
                   /\ output \in {<<>>, buf}
                   /\ outState = "closed" => output = buf
              ELSE exitCode = 2 /\ output = <<>> /\ outState = "none"
  /\ exitCode = 2 => (SignedInput /\ ~copyFiles)

C9_Witness ==
  SignedInput /\ pc = "done" /\ ~copyFiles /\ exitCode = 2 /\ run = 1

\* C10 as stated: the run on the output O of any run that returned 0 finds O
\* already processed, makes no cycle, returns 0 and writes O again.
C10_RerunDetectsAnyOutput ==
  (run = 2 /\ ~LoadFailed) =>
    /\ cycles = 0 /\ pc # "search"
    /\ pc \in {"meta", "done"} => SignedInput
    /\ pc = "done" =>
         /\ exitCode = 0
         /\ outState = "closed" => output = firstOut

\* C10 as amended: the run on an output O that a run assembled (the candidate
\* with the signature comment spliced in) finds O already processed, makes no
\* cycle, returns 0 and writes O again, unless the image cannot be loaded.
C10_RerunDetectsAssembled ==
  (run = 2 /\ firstWas = "assembled" /\ ~LoadFailed) =>
    /\ buf = firstOut
    /\ cycles = 0 /\ pc # "search"
    /\ pc \in {"meta", "done"} => SignedInput
    /\ pc = "done" =>
         /\ exitCode = 0
         /\ outState = "closed" => output = firstOut

C10_Witness ==
  run = 2 /\ firstWas = "assembled" /\ pc = "done" /\ exitCode = 0
  /\ outState = "closed" /\ output = firstOut /\ metaSize = 0
  /\ Len(firstOut) > Len(COMMENT)

\* C11: every output jpeg-recompress assembles is, in this order: the first
\* 4 + header-length bytes of the candidate (start marker and header segment),
\* the comment segment FF FE, two-byte big-endian length of signature + 2,
\* signature, the metadata kept (none under --strip), the candidate from
\* right after its header segment on.  Nothing of it is taken from the input.
C11_AssembledLayout ==
  (variant = "jpeg" /\ Emitted /\ outState = "closed") =>
    LET hdr == 4 + compressed[5] * 256 + compressed[6]
        sigLen == Len(COMMENT) + 2
    IN /\ Take(compressed, 4) = <<255, 216, 255, 224>>
       /\ hdr <= Len(compressed)
       /\ strip => metaBuf = NULL
       /\ output = SubSeq(compressed, 1, hdr)
                     \o <<255, 254, sigLen \div 256, sigLen % 256>> \o COMMENT
                     \o (IF metaBuf = NULL THEN <<>> ELSE metaBuf)
                     \o SubSeq(compressed, hdr + 1, Len(compressed))

\* An output assembled from a JPEG input with metadata: its header segment is
\* the candidate's, not the input's.
C11_Witness ==
  /\ variant = "jpeg" /\ Emitted /\ outState = "closed" /\ run = 1
  /\ inputFiletype = "JPEG" /\ metaSize > 0
  /\ SubSeq(output, 3, 6) = APP0 /\ SubSeq(buf, 3, 8) = JFIF

\* t occurs in s as a contiguous block.
Contains(s, t) ==
  \E i \in 0..(Len(s) - Len(t)) : SubSeq(s, i + 1, i + Len(t)) = t

RECURSIVE IsSubsequence(_, _)
\* The elements of t occur in s in the same relative order.
IsSubsequence(t, s) ==
  IF t = <<>> THEN TRUE
  ELSE IF s = <<>> THEN FALSE
  ELSE IF Head(t) = Head(s) THEN IsSubsequence(Tail(t), Tail(s))
  ELSE IsSubsequence(t, Tail(s))

\* jpeg-recompress has returned 0 on a JPEG input, without --strip.
KeepsMetadata ==
  /\ variant = "jpeg" /\ ~strip /\ run = 1
  /\ pc = "done" /\ exitCode = 0 /\ inputFiletype = "JPEG"

\* C12 as stated: jpeg-recompress without --strip: whenever a run on a JPEG
\* input returns 0, the metadata extracted from the input occurs in the
\* output as one contiguous block, in the order of extraction.
C12_MetadataKept == KeepsMetadata => Contains(output, GetMetadata(buf).meta)

\* C12 as amended: an assembled output holds the extracted metadata as one
\* contiguous block; a copied output, once written, is the input itself and
\* holds the bytes of the metadata in their order, at the places they had.
C12_MetadataKeptInOrder ==
  KeepsMetadata =>
    IF Emitted
      THEN /\ metaBuf = GetMetadata(buf).meta /\ metaSize = Len(metaBuf)
           /\ Contains(output, metaBuf)
      ELSE outState = "closed" =>
             /\ output = buf
             /\ IsSubsequence(GetMetadata(buf).meta, output)

\* An output assembled from an input whose metadata lay in two places.
C12_Witness ==
  /\ KeepsMetadata /\ Emitted /\ metaSize > 0
  /\ ~Contains(buf, metaBuf) /\ Contains(output, metaBuf)

\* jpeg-recompress has left the loop and passed the size test that follows it.
ReachedAssembly ==
  /\ variant = "jpeg" /\ pc = "done" /\ attempt < 0
  /\ totalSize < Len(buf)

\* C13: when the candidate that reaches the assembly does not begin with
\* FF D8, or its bytes 2 and 3 are not FF E0, jpeg-recompress returns 1 and
\* the output is neither opened nor written.
C13_MalformedCandidateRejected ==
  (/\ ReachedAssembly
   /\ \/ compressed = NULL
      \/ Len(compressed) < 4
      \/ SubSeq(compressed, 1, 2) # <<255, 216>>
      \/ SubSeq(compressed, 3, 4) # <<255, 224>>)
  => (exitCode = 1 /\ output = <<>> /\ outState = "none")

\* A candidate with the start marker and no APP0 after it was refused.
C13_Witness ==
  /\ ReachedAssembly /\ cycles >= 1 /\ compressed # NULL
  /\ SubSeq(compressed, 1, 2) = SOI /\ SubSeq(compressed, 3, 4) # <<255, 224>>
  /\ exitCode = 1 /\ outState = "none"

C15_OutputFailureReturns1 ==
  (variant = "jpeg" /\ pc = "done") =>
    /\ outState \in {"openfail", "writefail", "closefail"} => exitCode = 1
    /\ exitCode = 0 => outState = "closed"

\* C16: jpeg-recompress with --no-copy: a run that does not come to assemble
\* an output (signed input, output not smaller than the input, any earlier
\* return) leaves the output untouched and returns a code other than 0: the
\* bytes of the input are never written to it.
C16_NoCopyNeverCopies ==
  (variant = "jpeg" /\ ~copyFiles /\ pc = "done" /\ ~ReachedAssembly) =>
    (output = <<>> /\ outState = "none" /\ exitCode # 0)

\* archive2webp has left the loop and made its output calls, none of which
\* the file system made fail.
ConversionDone ==
  variant = "webp" /\ pc = "done" /\ attempt < 0 /\ fault = "none"

BadArguments ==
  \/ nargs # 2 \/ method = "UNKNOWN" \/ qMin > qMax
  \/ ScanTypeOptions(typeOpts, "AUTO").conflict

\* C18: a run with bad arguments returns 255, and returns before the input
\* is read or a candidate encoded.
C18_BadArgumentsExit255 ==
  BadArguments =>
    /\ pc \in {"args", "done"}
    /\ cycles = 0 /\ codec = "none" /\ outState = "none"
    /\ pc = "done" => exitCode = 255

RECURSIVE IsPrefixOf(_, _)
\* The sequence p begins the sequence t.
IsPrefixOf(p, t) ==
  IF p = <<>> THEN TRUE
  ELSE IF t = <<>> THEN FALSE
  ELSE Head(p) = Head(t) /\ IsPrefixOf(Tail(p), Tail(t))

C20_AllReleased ==
  /\ mem.bad = {}
  /\ (pc = "done" /\ InputWasRead) => \A p \in Pointers : mem.ptr[p] # "live"

\* A failure exit with every kind of buffer of jpeg-recompress once owned: the
\* decode of the second candidate fails while the metadata block is held.
C20_Witness ==
  /\ variant = "jpeg" /\ pc = "done" /\ exitCode = 1
  /\ codec = "decfail" /\ cycles = 2 /\ metaBuf # NULL
  /\ \A p \in {"buf", "original", "originalGray", "compressed",
                "compressedGray", "metaBuf"} : mem.ptr[p] = "dangling"

\* C21: jpeg-recompress applies the size guard once, after the last cycle: no
\* run whose codec calls all succeeded ends while the loop counter still
\* allows a further cycle.
C21_GuardOnlyAfterSearch ==
  (variant = "jpeg" /\ pc = "done" /\ codec = "ok") => attempt <= 0

\* C22: in jpeg-recompress without --accurate, a cycle asks for optimized
\* tables exactly when it is the final cycle, and for progressive encoding
\* exactly when it is the final cycle and --no-progressive is not given; the
\* cycle before any cycle asked for neither, a final cycle is followed by no
\* other, and with an attempt budget of at least 1 the candidate that leaves
\* the loop was encoded with them.
C22_OptimizedOnlyOnFinal ==
  /\ [][(variant = "jpeg" /\ ~accurate /\ cycles' = cycles + 1) =>
          LET final ==
                attempt = 0 \/ IsFinal(Mid(min, max), bestQuality, min, max)
          IN /\ optimize' = (IF final THEN 1 ELSE 0)
             /\ progressive' = (IF final /\ ~noProgressive THEN 1 ELSE 0)
             /\ cycles >= 1 => (optimize = 0 /\ progressive = 0)
             /\ final => (pc' = "done" \/ attempt' < 0)]_vars
  /\ []((variant = "jpeg" /\ ~accurate /\ attempts >= 1
         /\ pc = "search" /\ attempt < 0) =>
          /\ cycles >= 1 /\ compressed # NULL
          /\ optimize = 1
          /\ progressive = (IF noProgressive THEN 0 ELSE 1))

\* The second cycle was final and its candidate has left the loop.
C22_Witness ==
  /\ variant = "jpeg" /\ ~accurate /\ ~noProgressive
  /\ pc = "search" /\ attempt < 0 /\ cycles = 2
  /\ optimize = 1 /\ progressive = 1

\* C23: in both programs a cycle never raises bestDiff, and it changes
\* bestDiff or bestQuality only when its candidate was scored and the distance
\* of the score to the target is strictly below the bestDiff held before; the
\* two then become that distance and the quality of the cycle.
C23_BestOnlyImproves ==
  [][cycles' = cycles + 1 =>
       /\ bestDiff' <= bestDiff
       /\ (bestDiff' # bestDiff \/ bestQuality' # bestQuality) =>
            /\ codec' = "ok"
            /\ Abs(target - metric') < bestDiff
            /\ bestDiff' = Abs(target - metric')
            /\ bestQuality' = quality']_vars

\* The second cycle tied with the first, at another quality, and left the
\* best candidate as it was.
C23_Witness ==
  /\ cycles = 2 /\ codec = "ok"
  /\ Abs(target - metric) = bestDiff /\ bestQuality # quality

\* C24: under --strip jpeg-recompress holds no metadata from the start of
\* the search on: its size is 0 in the totalSize of every scored candidate,
\* and an assembled output is the header part of the candidate, the
\* signature comment and the rest of the candidate, with nothing between.
C24_StripDropsMetadata ==
  (variant = "jpeg" /\ strip) =>
    /\ metaBuf = NULL /\ metaSize = 0
    /\ (cycles >= 1 /\ codec = "ok") =>
         totalSize = Len(compressed) + Len(COMMENT) + 4
    /\ (pc = "done" /\ attempt < 0 /\ exitCode = 0 /\ outState = "closed") =>
         output = Take(compressed, App0LenP4(compressed)) \o ComHeader
                    \o COMMENT \o Drop(compressed, App0LenP4(compressed))

\* An input that carries metadata was re-encoded under --strip and written.
C24_Witness ==
  /\ variant = "jpeg" /\ strip /\ run = 1
  /\ inputFiletype = "JPEG" /\ Len(GetMetadata(buf).meta) > 0
  /\ pc = "done" /\ attempt < 0 /\ exitCode = 0 /\ outState = "closed"
  /\ Len(output) = Len(compressed) + Len(COMMENT) + 4

\* C25: in both programs, whenever a cycle is about to start and its trial
\* quality is the best quality so far, the interval has collapsed: the revisit
\* rule makes no cycle final that the min == max rule does not.
C25_RevisitOnlyWhenCollapsed ==
  (pc = "search" /\ attempt >= 0 /\ Mid(min, max) = bestQuality) => min = max

\* After three cycles the interval is a single quality, the best so far, and
\* the budget allows a further cycle.
C25_Witness ==
  /\ pc = "search" /\ attempt >= 1 /\ cycles = 3
  /\ Mid(min, max) = bestQuality /\ min = max /\ qMin < qMax

\* C26: with --min 1 --max 99 --loops 8, the defaults of both programs, a
\* search that no codec failure and no size rejection ends makes exactly 7
\* cycles: the interval holds more than one quality before each of the first
\* six, it is a single quality before the seventh, which the min == max rule
\* makes final while the counter still allows another, and the loop ends
\* after it.
C26_DefaultSearchTakesSeven ==
  (qMin = DefaultQMin /\ qMax = DefaultQMax /\ attempts = DefaultAttempts) =>
    /\ cycles <= 7
    /\ (pc = "search" /\ attempt >= 0 /\ cycles < 6) => min < max
    /\ (pc = "search" /\ attempt >= 0 /\ cycles = 6) =>
         (min = max /\ attempt = 1)
    /\ (pc = "search" /\ attempt < 0) => (cycles = 7 /\ min = max)

\* A search over the default range has ended after its seventh cycle.
C26_Witness ==
  /\ qMin = DefaultQMin /\ qMax = DefaultQMax /\ attempts = DefaultAttempts
  /\ pc = "search" /\ attempt < 0 /\ cycles = 7 /\ min = max
  /\ Cardinality({t[1] : t \in tried}) >= 6

\* C27: an assembled output of jpeg-recompress that was written completely
\* is as long as the totalSize computed for the last candidate, which is the
\* size of the candidate plus the signature, its 4 bytes of marker and
\* length, and the metadata kept; and it is shorter than the input.
C27_AssembledLength ==
  (variant = "jpeg" /\ pc = "done" /\ attempt < 0 /\ exitCode = 0
   /\ outState = "closed") =>
    /\ Len(output) = totalSize
    /\ totalSize = Len(compressed) + Len(COMMENT) + 4 + metaSize
    /\ Len(output) < Len(buf)

\* An assembled output that carries kept metadata.
C27_Witness ==
  /\ variant = "jpeg" /\ pc = "done" /\ attempt < 0 /\ exitCode = 0
  /\ outState = "closed" /\ run = 1
  /\ metaSize > 0 /\ Len(output) = Len(compressed) + 33 + metaSize

\* C28: in both programs a cycle never lowers min nor raises max; the quality
\* it encodes lies between the min and max it started with, and between qMin
\* and qMax; and it encodes a quality scored before only when that is the
\* quality of the cycle just before it and the interval has collapsed, which
\* makes the cycle final.  So the qualities scored in a run are distinct but
\* for one repeat at most.
C28_BoundsShrink ==
  /\ [][cycles' = cycles + 1 =>
          /\ min' >= min /\ max' <= max
          /\ min <= quality' /\ quality' <= max
          /\ qMin <= quality' /\ quality' <= qMax
          /\ (\E t \in tried : t[1] = quality') =>
               (quality' = quality /\ min = max)]_vars
  /\ [](codec = "ok" => Cardinality({t[1] : t \in tried}) >= cycles - 1)

\* The fourth cycle, final, has encoded the quality of the third again.
C28_Witness ==
  /\ cycles = 4 /\ codec = "ok" /\ pc = "search" /\ attempt < 0
  /\ Cardinality({t[1] : t \in tried}) = 3 /\ min = max /\ quality = min
====
